---- MODULE Spec2Model ----
(***************************************************************************)
(* HelpIndexTransformer (transform.py): the line parser of HelpIndex.txt,  *)
(* the field disambiguation of one item payload, the resource resolver,    *)
(* the renderer's traversal and the checklist, as one state machine.       *)
(*                                                                         *)
(* A Python str is a sequence of one-character strings, so that strip,     *)
(* split, join, upper and startswith are computed character by character.  *)
(***************************************************************************)
EXTENDS Integers, Sequences, FiniteSets, TLC

(***************************************************************************)
(* Bounds of the explored inputs.                                          *)
(***************************************************************************)
MaxLines == 3
MaxSectLines == 5
MaxItemLines == 2
MaxParts == 5
MaxRuns == 2

(***************************************************************************)
(* Characters and str methods.                                             *)
(***************************************************************************)
\* the characters used, in code point order (str comparison in sorted())
Ascii == << "\t", " ", ",", ".", "/", "0", "1", "2", "3", "4", "5", "6", "7",
            "8", "9", ":", "<", ">",
            "A", "B", "C", "D", "E", "F", "G", "H", "I", "J", "K", "L", "M",
            "N", "O", "P", "Q", "R", "S", "T", "U", "V", "W", "X", "Y", "Z",
            "a", "b", "c", "d", "e", "f", "g", "h", "i", "j", "k", "l", "m",
            "n", "o", "p", "q", "r", "s", "t", "u", "v", "w", "x", "y", "z" >>

Ord(c) == CHOOSE n \in 1..Len(Ascii) : Ascii[n] = c

IsSpace(c) == c \in {" ", "\t"}

IsDigit(c) == Ord(c) >= Ord("0") /\ Ord(c) <= Ord("9")

IsUpperAlpha(c) == Ord(c) >= Ord("A") /\ Ord(c) <= Ord("Z")

IsLowerAlpha(c) == Ord(c) >= Ord("a") /\ Ord(c) <= Ord("z")

\* str.upper() of one character
UpperChar(c) == IF IsLowerAlpha(c) THEN Ascii[Ord(c) - Ord("a") + Ord("A")] ELSE c

\* str.upper()
Upper(s) == [n \in 1..Len(s) |-> UpperChar(s[n])]

\* str.strip()
Strip(s) ==
    IF \A n \in 1..Len(s) : IsSpace(s[n])
    THEN << >>
    ELSE LET first == CHOOSE n \in 1..Len(s) :
                          ~IsSpace(s[n]) /\ \A m \in 1..(n-1) : IsSpace(s[m])
             last  == CHOOSE n \in 1..Len(s) :
                          ~IsSpace(s[n]) /\ \A m \in (n+1)..Len(s) : IsSpace(s[m])
         IN  SubSeq(s, first, last)

\* str.split(',')
RECURSIVE Split(_)
Split(s) ==
    IF \A n \in 1..Len(s) : s[n] # ","
    THEN << s >>
    ELSE LET p == CHOOSE n \in 1..Len(s) :
                      s[n] = "," /\ \A m \in 1..(n-1) : s[m] # ","
         IN  << SubSeq(s, 1, p-1) >> \o Split(SubSeq(s, p+1, Len(s)))

\* ','.join(parts)
RECURSIVE Join(_)
Join(parts) ==
    IF Len(parts) = 0 THEN << >>
    ELSE IF Len(parts) = 1 THEN parts[1]
    ELSE parts[1] \o << "," >> \o Join(Tail(parts))

\* str.startswith(prefix)
StartsWith(s, prefix) ==
    Len(s) >= Len(prefix) /\ SubSeq(s, 1, Len(prefix)) = prefix

\* s < t for str (code point order, a proper prefix is smaller)
StrLess(s, t) ==
    \E n \in 1..(Len(t)) :
        /\ \A m \in 1..(n-1) : m <= Len(s) /\ s[m] = t[m]
        /\ \/ Len(s) = n - 1
           \/ Len(s) >= n /\ Ord(s[n]) < Ord(t[n])

Range(list) == { list[n] : n \in 1..Len(list) }

\* sorted(set(files))
SortedSet(files) ==
    LET S == Range(files)
    IN  [n \in 1..Cardinality(S) |->
           CHOOSE x \in S : Cardinality({ y \in S : StrLess(y, x) }) = n - 1]

(***************************************************************************)
(* Class constants.                                                        *)
(***************************************************************************)
HELP == << "H", "E", "L", "P" >>
TUTORIALS == << "T", "U", "T", "O", "R", "I", "A", "L", "S" >>
VIDEOS == << "V", "I", "D", "E", "O", "S" >>
DESIGNERS == << "D", "E", "S", "I", "G", "N", "E", "R", "S" >>

\* as SECTION_ORDER, with the first two sections exchanged
SECTION_ORDER_Exchanged == << TUTORIALS, HELP, VIDEOS, DESIGNERS >>

SECTION_ORDER == << HELP, TUTORIALS, VIDEOS, DESIGNERS >>

help_pdh == << "h", "e", "l", "p", " ", "p", "d", "h" >>
tutorial_pdt == << "t", "u", "t", "o", "r", "i", "a", "l", " ", "p", "d", "t" >>

HelpDir == << "E", "x", "t", "r", "a", "s", "/", "H", "e", "l", "p", "/",
              "H", "e", "l", "p" >>
TutorialsDir == << "E", "x", "t", "r", "a", "s", "/", "H", "e", "l", "p", "/",
                   "T", "u", "t", "o", "r", "i", "a", "l", "s" >>

DefaultDir == << "E", "x", "t", "r", "a", "s", "/", "H", "e", "l", "p", "/",
                 "H", "e", "l", "p" >>

\* as PDF_DIRS_get, without the entry 'tutorial pdt'
PDF_DIRS_get_OneEntry(category) ==
    IF category = help_pdh THEN HelpDir
    ELSE DefaultDir

\* self.PDF_DIRS.get(category, 'Extras/Help/Help')
PDF_DIRS_get(category) ==
    IF category = help_pdh THEN HelpDir
    ELSE IF category = tutorial_pdt THEN TutorialsDir
    ELSE DefaultDir

http == << "h", "t", "t", "p" >>
EMPTY == << "E", "M", "P", "T", "Y" >>

\* None and the empty str are both falsy; the code only tests truthiness
None == << >>

(***************************************************************************)
(* parse_help_index: classification of one stripped line.                  *)
(***************************************************************************)
SectionNames == { SECTION_ORDER[n] : n \in 1..Len(SECTION_ORDER) }

\* re.match(r'^<(HELP|TUTORIALS|VIDEOS|DESIGNERS)>$', line): group(1) or None
SectionOpen(line) ==
    IF \E s \in SectionNames : line = << "<" >> \o s \o << ">" >>
    THEN CHOOSE s \in SectionNames : line = << "<" >> \o s \o << ">" >>
    ELSE None

\* re.match(r'^</(HELP|TUTORIALS|VIDEOS|DESIGNERS)>$', line)
SectionClose(line) ==
    \E s \in SectionNames : line = << "<", "/" >> \o s \o << ">" >>

\* [A-Z]+[A-Z0-9]* matches the whole of s
IsBrandToken(s) ==
    /\ Len(s) >= 1
    /\ IsUpperAlpha(s[1])
    /\ \A n \in 2..Len(s) : IsUpperAlpha(s[n]) \/ IsDigit(s[n])

\* re.match(r'^<([A-Z]+[A-Z0-9]*)>$', line): group(1) or None
BrandOpen(line) ==
    IF /\ Len(line) >= 3
       /\ line[1] = "<"
       /\ line[Len(line)] = ">"
       /\ IsBrandToken(SubSeq(line, 2, Len(line) - 1))
    THEN SubSeq(line, 2, Len(line) - 1)
    ELSE None

\* re.match(r'^</[A-Z]+[A-Z0-9]*>$', line)
BrandClose(line) ==
    /\ Len(line) >= 4
    /\ line[1] = "<"
    /\ line[2] = "/"
    /\ line[Len(line)] = ">"
    /\ IsBrandToken(SubSeq(line, 3, Len(line) - 1))

\* re.match(r'<(\d+)>(.*?)</\1>$', line): << group(2) >>, or << >> when
\* there is no match.  \d+ takes every leading digit (a '>' must follow), and
\* the closing tag is anchored at the end of the line.
ItemMatch(line) ==
    IF Len(line) >= 2 /\ line[1] = "<" /\ IsDigit(line[2])
    THEN LET nd == CHOOSE n \in 1..(Len(line) - 1) :
                       /\ \A m \in 2..(n+1) : IsDigit(line[m])
                       /\ (n + 2 > Len(line) \/ ~IsDigit(line[n+2]))
             num == SubSeq(line, 2, nd + 1)
             open == << "<" >> \o num \o << ">" >>
             close == << "<", "/" >> \o num \o << ">" >>
         IN  IF /\ Len(line) >= Len(open) + Len(close)
                /\ StartsWith(line, open)
                /\ SubSeq(line, Len(line) - Len(close) + 1, Len(line)) = close
             THEN << SubSeq(line, Len(open) + 1, Len(line) - Len(close)) >>
             ELSE << >>
    ELSE << >>

(***************************************************************************)
(* parse_help_index: one item payload into an item (the disambiguation).   *)
(***************************************************************************)
\* as HasCategory, with parts[-1] in place of parts[-1].strip()
HasCategoryUnstripped(parts) ==
    parts[Len(parts)] \in { help_pdh, tutorial_pdt }

\* parts[-1].strip() in ['help pdh', 'tutorial pdt']
HasCategory(parts) ==
    Strip(parts[Len(parts)]) \in { help_pdh, tutorial_pdt }

\* as ManyParts, with parts[1:-1] for the resource in both branches
ManyPartsOffByOne(parts) ==
    LET n == Len(parts)
    IN  IF HasCategory(parts)
        THEN [resource |-> Join(SubSeq(parts, 2, n - 1)),
              image |-> Strip(parts[n - 1]),
              category |-> Strip(parts[n])]
        ELSE [resource |-> Join(SubSeq(parts, 2, n - 1)),
              image |-> Strip(parts[n]),
              category |-> << >>]

\* 5+ parts: the resource contains commas
ManyParts(parts) ==
    LET n == Len(parts)
    IN  IF HasCategory(parts)
        THEN [resource |-> Join(SubSeq(parts, 2, n - 2)),
              image |-> Strip(parts[n - 1]),
              category |-> Strip(parts[n])]
        ELSE [resource |-> Join(SubSeq(parts, 2, n - 1)),
              image |-> Strip(parts[n]),
              category |-> << >>]

\* the (resource, image, category) chosen by the part count
FieldsOf(parts) ==
    LET n == Len(parts)
    IN  IF n = 2
        THEN [resource |-> Strip(parts[2]), image |-> << >>, category |-> << >>]
        ELSE IF n = 3
        THEN IF HasCategory(parts)
             THEN [resource |-> Strip(parts[2]), image |-> << >>,
                   category |-> Strip(parts[3])]
             ELSE [resource |-> Strip(parts[2]), image |-> Strip(parts[3]),
                   category |-> << >>]
        ELSE IF n = 4
        THEN [resource |-> Strip(parts[2]), image |-> Strip(parts[3]),
              category |-> Strip(parts[4])]
        ELSE ManyParts(parts)

\* as Retained, with the test of the resource only
RetainedByResource(title, resource) == resource # << >>

\* if title and resource
Retained(title, resource) == title # << >> /\ resource # << >>

\* the items appended for item_match.group(2) = raw: << item >> or << >>
ParseItem(raw) ==
    LET content == Strip(raw)
    IN  IF content # << >> /\ Upper(content) # EMPTY
        THEN LET parts == Split(content)
             IN  IF Len(parts) >= 2
                 THEN LET title == Strip(parts[1])
                          f == FieldsOf(parts)
                      IN  IF Retained(title, f.resource)
                          THEN << [title |-> title, resource |-> f.resource,
                                   image |-> f.image, category |-> f.category] >>
                          ELSE << >>
                 ELSE << >>
        ELSE << >>

\* brand_dict[current_brand][current_section].append(item) on the
\* defaultdict(list) of one brand: a sequence of [name, items] in key
\* insertion order; the key is inserted by its first append
AppendItem(sections, section, item) ==
    IF \E n \in 1..Len(sections) : sections[n].name = section
    THEN [n \in 1..Len(sections) |->
             IF sections[n].name = section
             THEN [sections[n] EXCEPT !.items = Append(@, item)]
             ELSE sections[n]]
    ELSE Append(sections, [name |-> section, items |-> << item >>])

\* sections.get(section_name, [])
SectionsGet(sections, section) ==
    IF \E n \in 1..Len(sections) : sections[n].name = section
    THEN (CHOOSE e \in { sections[n] : n \in 1..Len(sections) } :
              e.name = section).items
    ELSE << >>

\* brand in brand_order
InList(x, list) == \E n \in 1..Len(list) : list[n] = x

(***************************************************************************)
(* Input documents.                                                        *)
(***************************************************************************)
\* the line '<1>payload</1>'
ItemLine(payload) == << "<", "1", ">" >> \o payload \o << "<", "/", "1", ">" >>

OpenTag(name) == << "<" >> \o name \o << ">" >>
CloseTag(name) == << "<", "/" >> \o name \o << ">" >>

BrandZ == << "Z" >>
BrandA == << "A" >>
PayloadTR == << "t", ",", "r" >>

\* lines of the documents that exercise brands and sections
Lines ==
    { OpenTag(BrandZ), OpenTag(BrandA), CloseTag(BrandA),
      OpenTag(HELP), OpenTag(TUTORIALS), CloseTag(HELP),
      ItemLine(PayloadTR),
      ItemLine(EMPTY),
      << "<", "1", ">", "t", ",", "r", "<", "/", "2", ">" >> }

\* lines, after the brand's opening tag, of the documents that exercise the
\* sections of one brand
SectLines ==
    { OpenTag(TUTORIALS), OpenTag(HELP), CloseTag(HELP), ItemLine(PayloadTR) }

\* item lines of the documents that exercise items and their resolution
ItemLines ==
    { ItemLine(PayloadTR),
      << "\t" >> \o ItemLine(<< "T", ",", "r" >>) \o << " " >>,
      ItemLine(EMPTY),
      ItemLine(<< " ", "e", "m", "p", "t", "y", " " >>),
      ItemLine(<< ",", "r" >>),
      ItemLine(<< "t", ",", " " >>),
      ItemLine(<< "t", ",", "r", "," >> \o help_pdh),
      ItemLine(<< "t", ",", "r", "," >> \o tutorial_pdt),
      ItemLine(<< "t", ",", "r", ",", "i", ",", "v" >>),
      ItemLine(<< "t", "," >> \o http),
      ItemLine(<< "t", "," >> \o http \o << ":", "/", "/", "x", ",", "i", "," >>
               \o tutorial_pdt) }

\* every sequence of at most n elements of S
SeqUpTo(S, n) == UNION { [1..m -> S] : m \in 0..n }

Docs == SeqUpTo(Lines, MaxLines)
SectDocs ==
    { << OpenTag(BrandA) >> \o rest : rest \in SeqUpTo(SectLines, MaxSectLines) }
ItemDocs ==
    { << OpenTag(BrandA), OpenTag(HELP) >> \o items :
        items \in SeqUpTo(ItemLines, MaxItemLines) }

\* parts of a payload
Fields ==
    { << "t" >>, << " ", "t", " " >>, << >>, << " " >>,
      help_pdh, << " " >> \o tutorial_pdt }

(***************************************************************************)
(* State.                                                                  *)
(***************************************************************************)
VARIABLES
    doc,               \* the lines of the file at help_index_path
    exists,            \* help_index_path.exists()
    pc,                \* position in transform()
    pos,               \* number of lines the for loop of the parser has read
    current_brand,
    current_section,
    brand_order,
    brand_dict,        \* brand_dict[n]: the sections of brand_order[n] (the two
                       \* are extended together), in key insertion order
    brands,            \* the list parse_help_index returns
    idx,               \* generate_html: index of the brand being rendered
    sec,               \* generate_html: index in SECTION_ORDER, 0 before the brand's header
    k,                 \* generate_html: index of the next item of the section, 0 before its header
    html_parts,
    resource_path,     \* generate_html: the last value get_resource_path returned
    referenced_files,  \* self.referenced_files
    html_file,         \* content of output_html, NotOpened until it is opened
    checklist,         \* the value generate_checklist returned
    checklist_file,    \* content of output_checklist, NotOpened until it is opened
    form,              \* disambiguation: how the payload was built
    fields,            \* disambiguation: the fields the payload was built from
    parsed,            \* disambiguation: the items made of the payload
    run,               \* number of the call of transform() on this transformer
    first_run          \* what the first call of transform() left and reported

vars == << doc, exists, pc, pos, current_brand, current_section, brand_order,
           brand_dict, brands, idx, sec, k, html_parts, resource_path,
           referenced_files, html_file, checklist, checklist_file,
           form, fields, parsed, run, first_run >>

parserVars == << pos, current_brand, current_section, brand_order, brand_dict >>
renderVars == << idx, sec, k, html_parts, resource_path >>
outputVars == << html_file, checklist, checklist_file >>
inputVars == << doc, exists >>
disambVars == << form, fields, parsed >>
runVars == << run, first_run >>

NotOpened == << "not opened" >>

\* the transformer after __init__, transform() not yet called
Constructed ==
    /\ pos = 0
    /\ current_brand = None
    /\ current_section = None
    /\ brand_order = << >>
    /\ brand_dict = << >>
    /\ brands = << >>
    /\ idx = 0
    /\ sec = 0
    /\ k = 0
    /\ html_parts = << >>
    /\ resource_path = None
    /\ referenced_files = << >>
    /\ html_file = NotOpened
    /\ checklist = << >>
    /\ checklist_file = NotOpened
    /\ run = 1
    /\ first_run = [files |-> << >>, footer |-> 0, total |-> 0]

InitWith(D) ==
    /\ exists \in BOOLEAN
    /\ doc \in (IF exists THEN D ELSE { << >> })
    /\ pc = "start"
    /\ Constructed
    /\ form = "none"
    /\ fields = << >>
    /\ parsed = << >>

Init == InitWith(Docs)
InitSect == InitWith(SectDocs)
InitItems == InitWith(ItemDocs)

(***************************************************************************)
(* parse_help_index.                                                       *)
(***************************************************************************)
\* as ParseOpen, without the exists() check
ParseOpenUnchecked ==
    /\ pc = "start"
    /\ pc' = "parse"
    /\ pos' = 0
    /\ current_brand' = None
    /\ current_section' = None
    /\ brand_order' = << >>
    /\ brand_dict' = << >>
    /\ UNCHANGED << inputVars, runVars, brands, renderVars, referenced_files,
                    outputVars, disambVars >>

\* the exists() check and the initialisation of the locals
ParseOpen ==
    /\ pc = "start"
    /\ IF ~exists
       THEN /\ pc' = "error"
            /\ UNCHANGED parserVars
       ELSE /\ pc' = "parse"
            /\ pos' = 0
            /\ current_brand' = None
            /\ current_section' = None
            /\ brand_order' = << >>
            /\ brand_dict' = << >>
    /\ UNCHANGED << inputVars, runVars, brands, renderVars, referenced_files,
                    outputVars, disambVars >>

\* one iteration of 'for line in f'
ReadLine ==
    /\ pc = "parse"
    /\ pos < Len(doc)
    /\ pos' = pos + 1
    /\ LET line == Strip(doc[pos + 1])
       IN  IF SectionOpen(line) # None
           THEN /\ current_section' = SectionOpen(line)
                /\ UNCHANGED << current_brand, brand_order, brand_dict >>
           ELSE IF SectionClose(line)
           THEN /\ current_section' = None
                /\ UNCHANGED << current_brand, brand_order, brand_dict >>
           ELSE IF BrandOpen(line) # None
           THEN /\ current_brand' = BrandOpen(line)
                /\ IF ~InList(BrandOpen(line), brand_order)
                   THEN /\ brand_order' = Append(brand_order, BrandOpen(line))
                        /\ brand_dict' = Append(brand_dict, << >>)
                   ELSE UNCHANGED << brand_order, brand_dict >>
                /\ UNCHANGED current_section
           ELSE IF BrandClose(line)
           THEN /\ current_brand' = None
                /\ UNCHANGED << current_section, brand_order, brand_dict >>
           ELSE /\ IF current_brand # None /\ current_section # None
                        /\ ItemMatch(line) # << >>
                        /\ ParseItem(ItemMatch(line)[1]) # << >>
                   THEN LET b == CHOOSE n \in 1..Len(brand_order) :
                                     brand_order[n] = current_brand
                        IN  brand_dict' =
                              [brand_dict EXCEPT ![b] =
                                 AppendItem(@, current_section,
                                            ParseItem(ItemMatch(line)[1])[1])]
                   ELSE UNCHANGED brand_dict
                /\ UNCHANGED << current_brand, current_section, brand_order >>
    /\ UNCHANGED << inputVars, runVars, pc, brands, renderVars, referenced_files,
                    outputVars, disambVars >>

\* as ParseReturn, with 'for brand_name in sorted(brand_order)'
ParseReturnSorted ==
    /\ pc = "parse"
    /\ pos = Len(doc)
    /\ brands' = LET names == SortedSet(brand_order)
                 IN  [n \in 1..Len(names) |->
                        [name |-> names[n],
                         sections |-> brand_dict[CHOOSE m \in 1..Len(brand_order) :
                                                    brand_order[m] = names[n]]]]
    /\ pc' = "tabs"
    /\ UNCHANGED << inputVars, runVars, parserVars, renderVars, referenced_files,
                    outputVars, disambVars >>

\* for brand_name in brand_order: brands.append(...); return brands
ParseReturn ==
    /\ pc = "parse"
    /\ pos = Len(doc)
    /\ brands' = [n \in 1..Len(brand_order) |->
                    [name |-> brand_order[n], sections |-> brand_dict[n]]]
    /\ pc' = "tabs"
    /\ UNCHANGED << inputVars, runVars, parserVars, renderVars, referenced_files,
                    outputVars, disambVars >>

(***************************************************************************)
(* get_resource_path, get_image_path.                                      *)
(***************************************************************************)
\* as get_resource_path, with the append before the URL test
get_resource_path_AppendFirst(item, files) ==
    LET pdf_dir == PDF_DIRS_get(item.category)
        full_path == pdf_dir \o << "/" >> \o item.resource
    IN  IF StartsWith(item.resource, http)
        THEN [path |-> item.resource, files |-> Append(files, full_path)]
        ELSE [path |-> full_path, files |-> Append(files, full_path)]

\* as get_resource_path, with the append only of a path not yet in the list
get_resource_path_AppendNew(item, files) ==
    IF StartsWith(item.resource, http)
    THEN [path |-> item.resource, files |-> files]
    ELSE LET pdf_dir == PDF_DIRS_get(item.category)
             full_path == pdf_dir \o << "/" >> \o item.resource
         IN  [path |-> full_path,
              files |-> IF InList(full_path, files) THEN files
                        ELSE Append(files, full_path)]

\* the value returned and self.referenced_files after the call
get_resource_path(item, files) ==
    IF StartsWith(item.resource, http)
    THEN [path |-> item.resource, files |-> files]
    ELSE LET pdf_dir == PDF_DIRS_get(item.category)
             full_path == pdf_dir \o << "/" >> \o item.resource
         IN  [path |-> full_path, files |-> Append(files, full_path)]

IMAGE_DIR == << "i", "m", "a", "g", "e", "s" >>

get_image_path(item) ==
    IF item.image # << >>
    THEN IMAGE_DIR \o << "/" >> \o item.image
    ELSE None

(***************************************************************************)
(* generate_html: the traversal of brands, SECTION_ORDER and items.  An    *)
(* element of html_parts records what the fragment is made from.           *)
(***************************************************************************)
Fragment(kind, text, path, image) ==
    [kind |-> kind, text |-> text, path |-> path, image |-> image]

\* the loop that generates the tab buttons
RenderTabs ==
    /\ pc = "tabs"
    /\ html_parts' = [n \in 1..Len(brands) |->
                         Fragment("tab", brands[n].name, None, None)]
    /\ idx' = 1
    /\ sec' = 0
    /\ k' = 0
    /\ pc' = "render"
    /\ UNCHANGED << inputVars, runVars, parserVars, brands, resource_path,
                    referenced_files, outputVars, disambVars >>

\* the head of one iteration of 'for idx, (brand, sections) in enumerate(brands)'
RenderBrand ==
    /\ pc = "render"
    /\ idx <= Len(brands)
    /\ sec = 0
    /\ html_parts' = Append(html_parts,
                            Fragment("brand", brands[idx].name, None, None))
    /\ sec' = 1
    /\ UNCHANGED << inputVars, runVars, parserVars, brands, pc, idx, k, resource_path,
                    referenced_files, outputVars, disambVars >>

\* the position after the section at index sec of the brand at index idx
NextSection ==
    IF sec < Len(SECTION_ORDER)
    THEN /\ sec' = sec + 1
         /\ idx' = idx
    ELSE /\ sec' = 0
         /\ idx' = idx + 1

\* the head of one iteration of 'for section_name in self.SECTION_ORDER'
RenderSection ==
    /\ pc = "render"
    /\ idx <= Len(brands)
    /\ sec >= 1
    /\ k = 0
    /\ LET section_name == SECTION_ORDER[sec]
           items == SectionsGet(brands[idx].sections, section_name)
       IN  IF items = << >>
           THEN /\ NextSection
                /\ UNCHANGED << k, html_parts >>
           ELSE /\ html_parts' = Append(html_parts,
                                   Fragment("section", section_name, None, None))
                /\ k' = 1
                /\ UNCHANGED << idx, sec >>
    /\ UNCHANGED << inputVars, runVars, parserVars, brands, pc, resource_path,
                    referenced_files, outputVars, disambVars >>

\* one iteration of 'for item in items'
RenderItem ==
    /\ pc = "render"
    /\ idx <= Len(brands)
    /\ sec >= 1
    /\ k >= 1
    /\ LET items == SectionsGet(brands[idx].sections, SECTION_ORDER[sec])
           item == items[k]
           r == get_resource_path(item, referenced_files)
       IN  /\ resource_path' = r.path
           /\ referenced_files' = r.files
           /\ html_parts' = Append(html_parts,
                               Fragment("item", item.title, r.path,
                                        get_image_path(item)))
           /\ IF k < Len(items)
              THEN /\ k' = k + 1
                   /\ UNCHANGED << idx, sec >>
              ELSE /\ k' = 0
                   /\ NextSection
    /\ UNCHANGED << inputVars, runVars, parserVars, brands, pc, outputVars, disambVars >>

\* the footer, with len(self.referenced_files); return ''.join(html_parts)
RenderFooter ==
    /\ pc = "render"
    /\ idx > Len(brands)
    /\ html_parts' = Append(html_parts,
                            Fragment("footer", Len(referenced_files), None, None))
    /\ pc' = "write_html"
    /\ UNCHANGED << inputVars, runVars, parserVars, brands, idx, sec, k, resource_path,
                    referenced_files, outputVars, disambVars >>

(***************************************************************************)
(* generate_checklist and the two writes of transform.                     *)
(***************************************************************************)
\* with open(output_html, 'w') as f: f.write(html_content)
WriteHtml ==
    /\ pc = "write_html"
    /\ html_file' = html_parts
    /\ pc' = "checklist"
    /\ UNCHANGED << inputVars, runVars, parserVars, brands, renderVars,
                    referenced_files, checklist, checklist_file, disambVars >>

\* Path(pdf_path).exists() is read from the file system for each path
generate_checklist ==
    /\ pc = "checklist"
    /\ \E present \in SUBSET Range(referenced_files) :
         LET unique_files == SortedSet(referenced_files)
         IN  checklist' =
               [total |-> Len(referenced_files),
                entries |-> [n \in 1..Len(unique_files) |->
                               [path |-> unique_files[n],
                                exists |-> unique_files[n] \in present]]]
    /\ pc' = "write_checklist"
    /\ UNCHANGED << inputVars, runVars, parserVars, brands, renderVars,
                    referenced_files, html_file, checklist_file, disambVars >>

\* with open(output_checklist, 'w') as f: f.write(checklist)
WriteChecklist ==
    /\ pc = "write_checklist"
    /\ checklist_file' = checklist
    /\ pc' = "done"
    /\ UNCHANGED << inputVars, runVars, parserVars, brands, renderVars,
                    referenced_files, html_file, checklist, disambVars >>

\* the count in the footer of the HTML generate_html returned
FooterCount == html_parts[Len(html_parts)].text

\* transform() is called again on the same transformer, on the same file:
\* only __init__ assigns self.referenced_files
TransformAgain ==
    /\ pc = "done"
    /\ run < MaxRuns
    /\ run' = run + 1
    /\ first_run' = IF run = 1
                    THEN [files |-> referenced_files, footer |-> FooterCount,
                          total |-> checklist.total]
                    ELSE first_run
    /\ pc' = "start"
    /\ UNCHANGED << inputVars, parserVars, brands, renderVars,
                    referenced_files, outputVars, disambVars >>

(***************************************************************************)
(* The disambiguation of one payload, applied to payloads built from       *)
(* fields.                                                                 *)
(***************************************************************************)
FormLen(f) ==
    IF f = "TR" THEN {2}
    ELSE IF f \in {"TRI", "TRC"} THEN {3}
    ELSE IF f = "TRIC" THEN {4}
    ELSE 1..MaxParts

InitDisamb ==
    /\ exists = FALSE
    /\ doc = << >>
    /\ pc = "payload"
    /\ Constructed
    /\ form \in {"TR", "TRI", "TRC", "TRIC", "parts"}
    /\ fields \in UNION { [1..n -> Fields] : n \in FormLen(form) }
    /\ parsed = << >>

\* the payload ','.join(fields) goes through lines 76-130
Disambiguate ==
    /\ pc = "payload"
    /\ parsed' = ParseItem(Join(fields))
    /\ pc' = "parsed"
    /\ UNCHANGED << inputVars, runVars, parserVars, brands, renderVars,
                    referenced_files, outputVars, form, fields >>

(***************************************************************************)
(* Specifications.                                                         *)
(***************************************************************************)
Next ==
    \/ ParseOpen
    \/ ReadLine
    \/ ParseReturn
    \/ RenderTabs
    \/ RenderBrand
    \/ RenderSection
    \/ RenderItem
    \/ RenderFooter
    \/ WriteHtml
    \/ generate_checklist
    \/ WriteChecklist

NextDisamb == Disambiguate

NextAgain == Next \/ TransformAgain

\* transform() on documents of brand, section and item lines
Spec == Init /\ [][Next]_vars

\* transform() on documents of one brand's sections
SpecSect == InitSect /\ [][Next]_vars

\* transform() on documents of item lines in one section
SpecItems == InitItems /\ [][Next]_vars

\* transform() called up to MaxRuns times on one transformer
SpecAgain == InitItems /\ [][NextAgain]_vars

\* the disambiguation on payloads built from fields
SpecDisamb == InitDisamb /\ [][NextDisamb]_vars

(***************************************************************************)
(* Properties.                                                             *)
(***************************************************************************)
\* the line, as the parser classifies it (the first matching pattern wins)
Kind(raw) ==
    LET line == Strip(raw)
    IN  IF SectionOpen(line) # None THEN "section"
        ELSE IF SectionClose(line) THEN "end section"
        ELSE IF BrandOpen(line) # None THEN "brand"
        ELSE IF BrandClose(line) THEN "end brand"
        ELSE IF ItemMatch(line) # << >> THEN "item"
        ELSE "other"

\* parse_help_index has returned
Parsed == pc \in {"tabs", "render", "write_html", "checklist", "write_checklist", "done"}

HasItems(sections) ==
    \E m \in 1..Len(sections) : sections[m].items # << >>

\* C1: the structure parse_help_index returns contains no brand with zero
\* retained items.
C1_NoEmptyBrand ==
    Parsed => \A n \in 1..Len(brands) : HasItems(brands[n].sections)

\* the lines read so far leave the three-state machine in IN_SECTION: the
\* last brand opening tag has no brand closing tag after it, and a section
\* opening tag after it has no section closing tag after it
InSection(read) ==
    \E b \in 1..Len(read) :
        /\ Kind(read[b]) = "brand"
        /\ \A n \in (b+1)..Len(read) : Kind(read[n]) \notin {"brand", "end brand"}
        /\ \E c \in (b+1)..Len(read) :
              /\ Kind(read[c]) = "section"
              /\ \A n \in (c+1)..Len(read) : Kind(read[n]) # "end section"

\* the step retains an item
RetainsItem ==
    brand_dict' # brand_dict /\ Len(brand_dict') = Len(brand_dict)

\* C2: an item line is retained only in state IN_SECTION: a brand is open,
\* and a section was opened inside that brand and is not closed.
C2_RetainedOnlyInSection ==
    [][RetainsItem => InSection(SubSeq(doc, 1, pos))]_vars

\* the index of the first opening tag of the brand in the document
FirstSeen(brand) ==
    CHOOSE n \in 1..Len(doc) :
        /\ Kind(doc[n]) = "brand" /\ BrandOpen(Strip(doc[n])) = brand
        /\ \A m \in 1..(n-1) :
              ~(Kind(doc[m]) = "brand" /\ BrandOpen(Strip(doc[m])) = brand)

\* C3: the brands of the returned list are the brands whose opening tag is
\* in the document, each once, in the order of their first opening tags.
C3_BrandsInFirstSeenOrder ==
    Parsed =>
        /\ { brands[n].name : n \in 1..Len(brands) }
             = { BrandOpen(Strip(doc[n])) :
                    n \in { m \in 1..Len(doc) : Kind(doc[m]) = "brand" } }
        /\ \A m, n \in 1..Len(brands) :
              m < n => FirstSeen(brands[m].name) < FirstSeen(brands[n].name)

\* Z is opened before A and again after A, and the list is [Z, A]
C3_Witness ==
    /\ pc = "done"
    /\ Len(brands) = 2
    /\ brands[1].name = BrandZ
    /\ brands[2].name = BrandA
    /\ \E l, m, n \in 1..Len(doc) :
          /\ l < m /\ m < n
          /\ doc[l] = OpenTag(BrandZ)
          /\ doc[m] = OpenTag(BrandA)
          /\ doc[n] = OpenTag(BrandZ)

\* the names of the sections of a brand, in the order of the mapping
Names(sections) == [m \in 1..Len(sections) |-> sections[m].name]

\* the names of the section headers generate_html has emitted inside the
\* n-th brand's block, in the order of html_parts
SectionsRendered(n) ==
    LET BrandsBefore(m) ==
            Cardinality({ l \in 1..m : html_parts[l].kind = "brand" })
        at == { m \in 1..Len(html_parts) :
                   html_parts[m].kind = "section" /\ BrandsBefore(m) = n }
    IN  [m \in 1..Cardinality(at) |->
           html_parts[CHOOSE l \in at :
                         Cardinality({ j \in at : j < l }) = m - 1].text]

\* the index of the first opening tag of the section in the document
FirstOpened(section) ==
    CHOOSE n \in 1..Len(doc) :
        /\ SectionOpen(Strip(doc[n])) = section
        /\ \A m \in 1..(n-1) : SectionOpen(Strip(doc[m])) # section

\* the sections of the list are in the order of their first opening tags
InFirstOpenedOrder(names) ==
    \A m, n \in 1..Len(names) : m < n => FirstOpened(names[m]) < FirstOpened(names[n])

FixedPlace(section) ==
    IF section = HELP THEN 1
    ELSE IF section = TUTORIALS THEN 2
    ELSE IF section = VIDEOS THEN 3
    ELSE 4

IsPrefix(s, t) == Len(s) <= Len(t) /\ SubSeq(t, 1, Len(s)) = s

Item(title, resource, image, category) ==
    [title |-> title, resource |-> resource, image |-> image,
     category |-> category]

\* the (title, resource, image, category) a 2, 3 or 4 field payload was
\* built from, each field trimmed
BuiltFrom ==
    IF form = "TR"
    THEN Item(Strip(fields[1]), Strip(fields[2]), << >>, << >>)
    ELSE IF form = "TRI"
    THEN Item(Strip(fields[1]), Strip(fields[2]), Strip(fields[3]), << >>)
    ELSE IF form = "TRC"
    THEN Item(Strip(fields[1]), Strip(fields[2]), << >>, Strip(fields[3]))
    ELSE Item(Strip(fields[1]), Strip(fields[2]), Strip(fields[3]),
              Strip(fields[4]))

Recognized == { help_pdh, tutorial_pdt }

\* C5 as stated: a payload of 2, 3 or 4 fields built from a tuple with
\* non-empty title and resource (other than blanks) yields exactly that
\* tuple, each field trimmed, whatever the image or the category in a 3-field
\* payload.
C5_TupleRecovered ==
    ( /\ pc = "parsed"
      /\ form \in {"TR", "TRI", "TRC", "TRIC"}
      /\ Strip(fields[1]) # << >>
      /\ Strip(fields[2]) # << >> )
    => parsed = << BuiltFrom >>

\* C5, amended: a payload of 2, 3 or 4 fields built from a tuple whose title
\* and resource are non-empty after trimming yields exactly that tuple, each
\* field trimmed, provided that in a 3-field payload a third field meant as
\* the image is not, trimmed, a recognized category token, and a third field
\* meant as the category is, trimmed, a recognized category token or empty.
C5_TupleRecoveredWhenRecognizable ==
    ( /\ pc = "parsed"
      /\ form \in {"TR", "TRI", "TRC", "TRIC"}
      /\ Strip(fields[1]) # << >>
      /\ Strip(fields[2]) # << >>
      /\ form = "TRI" => Strip(fields[3]) \notin Recognized
      /\ form = "TRC" => Strip(fields[3]) \in Recognized \cup { << >> } )
    => parsed = << BuiltFrom >>

\* 'title,resource,category' with spaces around the title and before the
\* recognized category has been disambiguated
C5_Witness ==
    /\ pc = "parsed"
    /\ form = "TRC"
    /\ fields[1] = << " ", "t", " " >>
    /\ fields[3] = << " " >> \o tutorial_pdt
    /\ parsed # << >>
    /\ parsed[1].category = tutorial_pdt
    /\ parsed[1].title = << "t" >>

\* C6: for a payload of 5 or more parts, the item produced has, when the
\* last part trimmed is a recognized category token, that token as category,
\* the trimmed second-to-last part as image and the parts between the title
\* and the image slot, rejoined with commas, as resource; otherwise the last
\* part (trimmed) as image, no category, and the parts between the title and
\* the last part, rejoined with commas, as resource.
C6_EmbeddedCommasRejoined ==
    ( /\ pc = "parsed"
      /\ form = "parts"
      /\ Len(fields) >= 5
      /\ parsed # << >> )
    => LET n == Len(fields)
           Between(a, b) == Join(SubSeq(fields, a, b))
       IN  /\ Len(parsed) = 1
           /\ parsed[1].title = Strip(fields[1])
           /\ IF Strip(fields[n]) \in Recognized
              THEN /\ parsed[1].category = Strip(fields[n])
                   /\ parsed[1].image = Strip(fields[n-1])
                   /\ parsed[1].resource = Between(2, n - 2)
              ELSE /\ parsed[1].category = << >>
                   /\ parsed[1].image = Strip(fields[n])
                   /\ parsed[1].resource = Between(2, n - 1)

\* 'title,a,b,,tutorial pdt': the resource 'a,b' keeps its comma, the image
\* is empty and the category is the token
C6_Witness ==
    /\ pc = "parsed"
    /\ form = "parts"
    /\ Len(fields) = 5
    /\ fields[2] # << >>
    /\ fields[3] # << >>
    /\ fields[4] = << >>
    /\ Strip(fields[5]) = tutorial_pdt
    /\ parsed # << >>
    /\ parsed[1].resource = fields[2] \o << "," >> \o fields[3]
    /\ parsed[1].image = << >>
    /\ parsed[1].category = tutorial_pdt

\* the items of the structure the parser has built so far
ItemsOf(dict) ==
    UNION { UNION { Range(dict[n][m].items) : m \in 1..Len(dict[n]) } :
              n \in 1..Len(dict) }

\* the items of the structure parse_help_index returned
ReturnedItems == ItemsOf([n \in 1..Len(brands) |-> brands[n].sections])

\* 'EMPTY' in any letter case
EmptySentinels ==
    { << e, m, p, t, y >> :
        e \in {"e", "E"}, m \in {"m", "M"}, p \in {"p", "P"},
        t \in {"t", "T"}, y \in {"y", "Y"} }

\* the line is an item line whose payload, trimmed, is the EMPTY sentinel
IsEmptyItemLine(raw) ==
    /\ Kind(raw) = "item"
    /\ Strip(ItemMatch(Strip(raw))[1]) \in EmptySentinels

\* C7: reading an item line whose payload, trimmed, is 'EMPTY' in any letter
\* case adds no item to the structure; every retained item has a non-empty
\* title and a non-empty resource.
C7_NoEmptyItem ==
    /\ [](\A item \in ItemsOf(brand_dict) \cup ReturnedItems :
             item.title # << >> /\ item.resource # << >>)
    /\ [][(pc = "parse" /\ pos' = pos + 1 /\ IsEmptyItemLine(doc[pos'])) =>
             brand_dict' = brand_dict]_vars

\* a document with an item line ' empty ' and a retained item has been parsed
C7_Witness ==
    /\ Parsed
    /\ \E n \in 1..Len(doc) :
          doc[n] = ItemLine(<< " ", "e", "m", "p", "t", "y", " " >>)
    /\ ReturnedItems # { }

\* the item the next iteration of 'for item in items' resolves
CurrentItem == SectionsGet(brands[idx].sections, SECTION_ORDER[sec])[k]

\* the step calls get_resource_path(CurrentItem)
Resolves ==
    /\ pc = "render"
    /\ k >= 1
    /\ Len(html_parts') = Len(html_parts) + 1

IsUrl(resource) ==
    /\ Len(resource) >= 4
    /\ resource[1] = "h" /\ resource[2] = "t" /\ resource[3] = "t"
    /\ resource[4] = "p"

\* C8: for an item whose resource begins with 'http', get_resource_path
\* returns the resource unchanged and leaves the referenced-files list
\* unchanged, whatever the category.
C8_UrlUnchanged ==
    [][(Resolves /\ IsUrl(CurrentItem.resource)) =>
          /\ resource_path' = CurrentItem.resource
          /\ referenced_files' = referenced_files]_vars

\* a URL item with a category has been resolved after a local item: the
\* list holds the local path only
C8_Witness ==
    /\ pc = "render"
    /\ Len(referenced_files) = 1
    /\ Len(html_parts) >= 2
    /\ LET last == html_parts[Len(html_parts)]
       IN  /\ last.kind = "item"
           /\ IsUrl(last.path)
           /\ resource_path = last.path
    /\ \E item \in ReturnedItems :
          IsUrl(item.resource) /\ item.category = tutorial_pdt

\* C9: for a non-URL item, get_resource_path returns '<directory>/<resource>'
\* where the directory is the one of 'help pdh' or the different one of
\* 'tutorial pdt' for these two categories, and the default directory for an
\* empty or any other category.
C9_CategoryDirectory ==
    /\ [](HelpDir # TutorialsDir)
    /\ [][(Resolves /\ ~IsUrl(CurrentItem.resource)) =>
             LET item == CurrentItem
                 directory == IF item.category = help_pdh THEN HelpDir
                              ELSE IF item.category = tutorial_pdt THEN TutorialsDir
                              ELSE DefaultDir
             IN  resource_path' = directory \o << "/" >> \o item.resource]_vars

\* an item of category 'tutorial pdt' and an item of the unrecognized
\* category 'v' have been resolved
C9_Witness ==
    /\ pc = "done"
    /\ \E item \in ReturnedItems :
          item.category = << "v" >>
    /\ \E n \in 1..Len(html_parts) :
          /\ html_parts[n].kind = "item"
          /\ html_parts[n].path = TutorialsDir \o << "/", "r" >>
    /\ \E n \in 1..Len(html_parts) :
          /\ html_parts[n].kind = "item"
          /\ html_parts[n].path = DefaultDir \o << "/", "r" >>

\* C10: when the primary inventory file does not exist, transform fails
\* before either output file is opened and the referenced-files list is
\* left empty.
C10_MissingInputFails ==
    ~exists =>
        /\ pc \in {"start", "error"}
        /\ html_file = NotOpened
        /\ checklist_file = NotOpened
        /\ referenced_files = << >>

\* transform has raised FileNotFoundError
C10_Witness ==
    /\ ~exists
    /\ pc = "error"

\* C11: a second run of parse, render and checklist generation on the same
\* transformer and the same document leaves the same referenced-files list
\* and reports the same counts (footer, 'Total Files') as the first run.
C11_SecondRunSame ==
    (run = 2 /\ pc = "done") =>
        /\ referenced_files = first_run.files
        /\ FooterCount = first_run.footer
        /\ checklist.total = first_run.total

\* the paths of the non-URL items generate_html has rendered, in the order
\* of html_parts
LocalPathsRendered ==
    LET local == SelectSeq(html_parts,
                           LAMBDA f : f.kind = "item" /\ ~IsUrl(f.path))
    IN  [n \in 1..Len(local) |-> local[n].path]

\* t follows s in the order of str: at the first index where they differ t
\* has the greater character, or s is a proper prefix of t
Follows(s, t) ==
    LET common == { n \in 0..Len(s) :
                      n <= Len(t) /\ \A m \in 1..n : s[m] = t[m] }
        same == CHOOSE n \in common : \A m \in common : m <= n
    IN  IF same = Len(s) THEN Len(t) > Len(s)
        ELSE same < Len(t) /\ Ord(s[same + 1]) < Ord(t[same + 1])

\* C12: the referenced-files list only grows at its end; each resolution of
\* a non-URL item appends exactly the returned path, also when it is in the
\* list already; after rendering the list is the sequence of the resolved
\* paths of the non-URL items in the order rendered; the checklist holds
\* each distinct path of the list once, in increasing str order.
C12_AppendOnlyInResolutionOrder ==
    /\ [][IsPrefix(referenced_files, referenced_files')]_vars
    /\ [][(Resolves /\ ~IsUrl(CurrentItem.resource)) =>
             referenced_files' = Append(referenced_files, resource_path')]_vars
    /\ [](pc \in {"write_html", "checklist", "write_checklist", "done"} =>
             referenced_files = LocalPathsRendered)
    /\ [](pc \in {"write_checklist", "done"} =>
             /\ { checklist.entries[n].path : n \in 1..Len(checklist.entries) }
                  = Range(referenced_files)
             /\ \A n \in 1..(Len(checklist.entries) - 1) :
                   Follows(checklist.entries[n].path,
                           checklist.entries[n + 1].path))

\* two items resolved to the same path: the list holds it twice, the
\* checklist once
C12_Witness ==
    /\ pc = "done"
    /\ Len(referenced_files) = 2
    /\ referenced_files[1] = referenced_files[2]
    /\ Len(checklist.entries) = 1
    /\ checklist.total = 2

====
